---- MODULE Spec2Model ----
(***************************************************************************)
(* The dual-queue state store and the debounced infinite-scroll trigger of *)
(* the moderation dashboard (src/src/App.js).                              *)
(*                                                                         *)
(* One action is one task of the single JavaScript thread: a UI event      *)
(* handler up to its first await, or the continuation of an async function *)
(* after the adapter settles.  React's re-render and the effect that       *)
(* re-registers the scroll listener are part of the task that changed the  *)
(* state.  Items are represented by their ids.                             *)
(***************************************************************************)
EXTENDS Integers, Sequences, FiniteSets, Bags

\* ---------------------------------------------------------------- bounds
\* Most items the backend holds in the not-yet-reviewed queue.
PendingTotal == 2
\* Most items the backend holds in the reviewed queue.
ReviewedTotal == 1
\* The same where the moderator only scrolls.
ScrollPendingTotal == 3
ScrollReviewedTotal == 2
\* Largest page the backend hands out (it never exceeds the requested limit).
ServerPageSize == 1
\* submitAction calls that may be awaiting the adapter at once.
MaxSubmissions == 2
\* The debounce window, in clock ticks.
WindowTicks == 2

\* ------------------------------------------------------ program constants
\* pagination limit passed to queryReviewQueue
limit == 25

\* The absent cursor (null).  A present cursor k names page k of its queue.
Null == 0

\* ---------------------------------------------------------------- state
VARIABLES
    reviewQueueItems,   \* useState([])   items of PendingReview
    reviewedItems,      \* useState([])   items of Reviewed
    activeTab,          \* useState(0)    0 = Needs Review, 1 = Reviewed
    reviewQueueCursor,  \* useState(null)
    reviewedCursor,     \* useState(null)
    isLoading,          \* useState(false)
    phase,              \* position of initializeData
    backend,            \* what the moderation backend holds, per queue
    requests,           \* bag of queryReviewQueue calls awaiting the adapter
    submissions,        \* bag of submitAction calls awaiting the adapter
    handleScroll,       \* the current debounced function: its closure and timer
    sinceScroll,        \* ticks since the last scroll event (saturates)
    burst,              \* history: the current burst of scroll events
    exhausted,          \* history: queue -> a fetch completed with absent next
    succeeded,          \* history: queue -> number of successful fetches
    acted,              \* history: some action acknowledgment was applied
    removedByDelete,    \* history: ids a delete acknowledgment removed
    last                \* history: the task that ran last

vars == <<reviewQueueItems, reviewedItems, activeTab, reviewQueueCursor,
          reviewedCursor, isLoading, phase, backend, requests, submissions,
          handleScroll, sinceScroll, burst, exhausted, succeeded, acted,
          removedByDelete, last>>

\* --------------------------------------------------------------- helpers
Min(a, b) == IF a < b THEN a ELSE b

\* items.some(item => item.id === itemId)
In(itemId, items) == \E i \in 1..Len(items) : items[i] = itemId

Count(itemId, items) == Cardinality({i \in 1..Len(items) : items[i] = itemId})

NoDup(items) == \A i, j \in 1..Len(items) : items[i] = items[j] => i = j

\* ------------------------------------------- the moderation client adapter
\* A backend that respects the pagination contract: a fixed list of items per
\* queue, cut in disjoint pages; the cursor of a page is its index.
PageSize == Min(limit, ServerPageSize)

ServerItems(isReviewed) ==
    IF isReviewed THEN [k \in 1..backend.reviewed |-> backend.pending + k]
    ELSE [k \in 1..backend.pending |-> k]

queryReviewQueue(isReviewed, next) ==
    LET all == ServerItems(isReviewed)
        from == next * PageSize
        upto == Min(from + PageSize, Len(all))
    IN  [items |-> SubSeq(all, from + 1, upto),
         next |-> IF upto < Len(all) THEN next + 1 ELSE Null]

\* ------------------------------------------------------- state updaters
\* prev => cursor ? [...prev, ...response.items] : response.items
fetchUpdater(prev, cursor, items) ==
    IF cursor # Null THEN prev \o items ELSE items

\* reviewQueueItems.find(item => item.id === itemId): <<item>> or <<>>
find(items, itemId) ==
    IF In(itemId, items) THEN <<itemId>> ELSE <<>>

\* prev => prev.filter(item => item.id !== itemId)
removeItemKeepOnly(prev, itemId) == SelectSeq(prev, LAMBDA item : item = itemId)

removeItem(prev, itemId) == SelectSeq(prev, LAMBDA item : item # itemId)

\* prev => [itemToMove, ...prev]
prependItem(itemToMove, prev) == <<itemToMove>> \o prev

\* ------------------------------------------------------------- rendering
\* useCallback(debounce(..., 300), [activeTab, isLoading, reviewQueueCursor,
\* reviewedCursor]) and the effect on [handleScroll]: when a dependency has
\* changed the render makes a new debounced function over the new values, and
\* the effect's cleanup cancels the pending call of the old one.
Render(tab, loading, rqCursor, rvCursor, pending) ==
    IF /\ tab = handleScroll.activeTab
       /\ loading = handleScroll.isLoading
       /\ rqCursor = handleScroll.reviewQueueCursor
       /\ rvCursor = handleScroll.reviewedCursor
    THEN [handleScroll EXCEPT !.pending = pending]
    ELSE [activeTab |-> tab, isLoading |-> loading,
          reviewQueueCursor |-> rqCursor, reviewedCursor |-> rvCursor,
          pending |-> FALSE]

Op(name, isReviewed, cursor, itemId, wasPending) ==
    [op |-> name, isReviewed |-> isReviewed, cursor |-> cursor,
     itemId |-> itemId, wasPending |-> wasPending]

\* Tasks no property singles out.
Other == Op("other", FALSE, Null, 0, FALSE)

Mounted ==
    /\ reviewQueueItems = <<>>
    /\ reviewedItems = <<>>
    /\ activeTab = 0
    /\ reviewQueueCursor = Null
    /\ reviewedCursor = Null
    /\ isLoading = FALSE
    /\ phase = "connecting"
    /\ requests = EmptyBag
    /\ submissions = EmptyBag
    /\ handleScroll = [activeTab |-> 0, isLoading |-> FALSE,
                       reviewQueueCursor |-> Null, reviewedCursor |-> Null,
                       pending |-> FALSE]
    /\ sinceScroll = WindowTicks
    /\ burst = [active |-> FALSE, evals |-> 0]
    /\ exhausted = [q \in BOOLEAN |-> FALSE]
    /\ succeeded = [q \in BOOLEAN |-> 0]
    /\ acted = FALSE
    /\ removedByDelete = {}
    /\ last = Other

Init ==
    /\ Mounted
    /\ backend \in [pending : 0..PendingTotal, reviewed : 0..ReviewedTotal]

InitTimed ==
    /\ Mounted
    /\ backend \in [pending : 0..ScrollPendingTotal, reviewed : 0..ScrollReviewedTotal]

Store == <<reviewQueueItems, reviewedItems, reviewQueueCursor, reviewedCursor>>
\* The history variables, and the backend, which no task of the page changes.
History == <<backend, exhausted, succeeded, acted, removedByDelete>>
Clock == <<sinceScroll, burst>>

\* ------------------------------------------------------------ initialize
\* initializeData after connectUser resolved: Promise.all([fetchItems(false),
\* fetchItems(true)]); each runs to its await: setIsLoading(true), the call.
initializeData ==
    /\ phase = "connecting"
    /\ phase' = "ready"
    /\ isLoading' = TRUE
    /\ requests' = requests (+) SetToBag({[isReviewed |-> FALSE, cursor |-> Null]})
                            (+) SetToBag({[isReviewed |-> TRUE, cursor |-> Null]})
    /\ handleScroll' = Render(activeTab, TRUE, reviewQueueCursor, reviewedCursor,
                              handleScroll.pending)
    /\ last' = Other
    /\ UNCHANGED <<Store, activeTab, submissions, Clock, History>>

\* connectUser rejected: initializeData ends there, no fetch is issued.
connectUserRejected ==
    /\ phase = "connecting"
    /\ phase' = "failed"
    /\ last' = Other
    /\ UNCHANGED <<Store, activeTab, isLoading, requests, submissions,
                   handleScroll, Clock, History>>

\* ------------------------------------------------------------- fetchItems
\* fetchItems(isReviewed, cursor) up to its await: setIsLoading(true) and the
\* adapter call.
fetchItems(isReviewed, cursor) ==
    /\ isLoading' = TRUE
    /\ requests' = requests (+) SetToBag({[isReviewed |-> isReviewed, cursor |-> cursor]})
    /\ handleScroll' = Render(activeTab, TRUE, reviewQueueCursor, reviewedCursor, FALSE)

\* The adapter resolved: the try block after the await, then finally.
fetchItemsThen(r) ==
    /\ BagIn(r, requests)
    /\ LET response == queryReviewQueue(r.isReviewed, r.cursor)
       IN  /\ IF r.isReviewed
              THEN /\ reviewedItems' = fetchUpdater(reviewedItems, r.cursor, response.items)
                   /\ reviewedCursor' = response.next
                   /\ UNCHANGED <<reviewQueueItems, reviewQueueCursor>>
              ELSE /\ reviewQueueItems' = fetchUpdater(reviewQueueItems, r.cursor, response.items)
                   /\ reviewQueueCursor' = response.next
                   /\ UNCHANGED <<reviewedItems, reviewedCursor>>
           /\ exhausted' = [exhausted EXCEPT ![r.isReviewed] = @ \/ response.next = Null]
    /\ isLoading' = FALSE
    /\ requests' = requests (-) SetToBag({r})
    /\ succeeded' = [succeeded EXCEPT ![r.isReviewed] = @ + 1]
    /\ handleScroll' = Render(activeTab, FALSE, reviewQueueCursor', reviewedCursor',
                              handleScroll.pending)
    /\ last' = Other
    /\ UNCHANGED <<activeTab, phase, submissions, Clock, backend, acted, removedByDelete>>

\* A catch block that also forgot the queue's cursor.
fetchItemsCatchResetsCursor(r) ==
    /\ BagIn(r, requests)
    /\ isLoading' = FALSE
    /\ requests' = requests (-) SetToBag({r})
    /\ reviewQueueCursor' = IF r.isReviewed THEN reviewQueueCursor ELSE Null
    /\ reviewedCursor' = IF r.isReviewed THEN Null ELSE reviewedCursor
    /\ handleScroll' = Render(activeTab, FALSE, reviewQueueCursor', reviewedCursor',
                              handleScroll.pending)
    /\ last' = Op("fetchErr", r.isReviewed, r.cursor, 0, FALSE)
    /\ UNCHANGED <<reviewQueueItems, reviewedItems, activeTab, phase, submissions,
                   Clock, History>>

\* The adapter rejected: catch logs, finally clears the flag.
fetchItemsCatch(r) ==
    /\ BagIn(r, requests)
    /\ isLoading' = FALSE
    /\ requests' = requests (-) SetToBag({r})
    /\ handleScroll' = Render(activeTab, FALSE, reviewQueueCursor, reviewedCursor,
                              handleScroll.pending)
    /\ last' = Op("fetchErr", r.isReviewed, r.cursor, 0, FALSE)
    /\ UNCHANGED <<Store, activeTab, phase, submissions, Clock, History>>

\* ---------------------------------------------------------- scroll trigger
\* A scroll event calls the debounced function: its timer (re)starts.
scrollEvent ==
    /\ handleScroll' = [handleScroll EXCEPT !.pending = TRUE]
    /\ last' = Other
    /\ UNCHANGED <<Store, activeTab, isLoading, phase, requests, submissions, History>>

\* The debounced body, run when its timer expires.  It reads the values its
\* closure was made with.
debounced(loading) ==
    /\ handleScroll.pending
    /\ \E nearBottom \in BOOLEAN :
         LET isReviewedTab == handleScroll.activeTab = 1
             currentCursor == IF isReviewedTab THEN handleScroll.reviewedCursor
                              ELSE handleScroll.reviewQueueCursor
         IN  IF ~loading /\ nearBottom /\ currentCursor # Null
             THEN /\ fetchItems(isReviewedTab, currentCursor)
                  /\ last' = Op("fetch", isReviewedTab, currentCursor, 0, FALSE)
             ELSE /\ handleScroll' = [handleScroll EXCEPT !.pending = FALSE]
                  /\ last' = Other
                  /\ UNCHANGED <<isLoading, requests>>
    /\ UNCHANGED <<Store, activeTab, phase, submissions, History>>

\* The body without its "if (isLoading) return".
handleScrollUnguarded == debounced(FALSE)

handleScrollBody == debounced(handleScroll.isLoading)

\* Without a clock: the timer of a pending call expires at some time.
scroll == scrollEvent /\ UNCHANGED Clock

handleScrollTimer == handleScrollBody /\ UNCHANGED Clock

\* With a clock.  A timer that is due runs before the next event is dispatched
\* and before more time passes.
scrollTimed ==
    /\ ~(handleScroll.pending /\ sinceScroll = WindowTicks)
    /\ scrollEvent
    /\ burst' = IF burst.active /\ sinceScroll < WindowTicks
                THEN burst
                ELSE [active |-> TRUE, evals |-> 0]
    /\ sinceScroll' = 0

tick ==
    /\ sinceScroll < WindowTicks
    /\ sinceScroll' = sinceScroll + 1
    /\ last' = Other
    /\ UNCHANGED <<Store, activeTab, isLoading, phase, requests, submissions,
                   handleScroll, burst, History>>

handleScrollTimerDue ==
    /\ sinceScroll = WindowTicks
    /\ handleScrollBody
    /\ burst' = [burst EXCEPT !.evals = @ + 1]
    /\ UNCHANGED sinceScroll

\* ----------------------------------------------------------------- actions
Rendered == IF activeTab = 1 THEN reviewedItems ELSE reviewQueueItems

\* A click on a button of a rendered item: the handler up to its await.  The
\* handler is the one of the current render, and the reviewQueueItems it reads
\* after the await (line 243) is that render's array, whatever the state has
\* become since.  The array never changes, so the lookup is evaluated here and
\* its result waits with the call.
submitAction(name, itemId) ==
    /\ In(itemId, Rendered)
    /\ BagCardinality(submissions) < MaxSubmissions
    /\ submissions' = submissions (+) SetToBag({[action |-> name, itemId |-> itemId,
                             itemToMove |-> find(reviewQueueItems, itemId)]})
    /\ UNCHANGED <<Store, activeTab, isLoading, phase, requests, handleScroll,
                   Clock, History>>

handleMarkReviewed(itemId) ==
    /\ submitAction("mark_reviewed", itemId)
    /\ last' = Other

handleDelete(itemId) ==
    /\ submitAction("delete_message", itemId)
    /\ last' = Other

\* submitAction("mark_reviewed") acknowledged.
handleMarkReviewedThen(s) ==
    /\ BagIn(s, submissions)
    /\ s.action = "mark_reviewed"
    /\ submissions' = submissions (-) SetToBag({s})
    /\ reviewQueueItems' = removeItem(reviewQueueItems, s.itemId)
    /\ reviewedItems' = IF s.itemToMove # <<>>
                        THEN prependItem(s.itemToMove[1], reviewedItems)
                        ELSE reviewedItems
    /\ acted' = TRUE
    /\ last' = Op("markAck", FALSE, Null, s.itemId, s.itemToMove # <<>>)
    /\ UNCHANGED <<reviewQueueCursor, reviewedCursor, activeTab, isLoading, phase,
                   requests, handleScroll, Clock, backend, exhausted, succeeded,
                   removedByDelete>>

\* submitAction("delete_message") acknowledged.
handleDeleteThen(s) ==
    /\ BagIn(s, submissions)
    /\ s.action = "delete_message"
    /\ submissions' = submissions (-) SetToBag({s})
    /\ reviewQueueItems' = removeItem(reviewQueueItems, s.itemId)
    /\ acted' = TRUE
    /\ removedByDelete' = IF In(s.itemId, reviewQueueItems)
                          THEN removedByDelete \cup {s.itemId}
                          ELSE removedByDelete
    /\ last' = Op("deleteAck", FALSE, Null, s.itemId, s.itemToMove # <<>>)
    /\ UNCHANGED <<reviewedItems, reviewQueueCursor, reviewedCursor, activeTab,
                   isLoading, phase, requests, handleScroll, Clock, backend,
                   exhausted, succeeded>>

\* submitAction rejected: the catch block of either handler logs.
submitActionCatch(s) ==
    /\ BagIn(s, submissions)
    /\ submissions' = submissions (-) SetToBag({s})
    /\ last' = Op(IF s.action = "mark_reviewed" THEN "markErr" ELSE "deleteErr",
                  FALSE, Null, s.itemId, s.itemToMove # <<>>)
    /\ UNCHANGED <<Store, activeTab, isLoading, phase, requests, handleScroll,
                   Clock, History>>

\* ------------------------------------------------------------------- tabs
\* setActiveTab(activeIndex); the scroll event window.scrollTo(0, 0) may raise
\* is one of the scroll events.
handleTabChange(activeIndex) ==
    /\ activeTab' = activeIndex
    /\ handleScroll' = Render(activeIndex, isLoading, reviewQueueCursor, reviewedCursor,
                              handleScroll.pending)
    /\ last' = Other
    /\ UNCHANGED <<Store, isLoading, phase, requests, submissions, Clock, History>>


Next ==
    \/ initializeData
    \/ connectUserRejected
    \/ \E r \in BagToSet(requests) : fetchItemsThen(r)
    \/ \E r \in BagToSet(requests) : fetchItemsCatch(r)
    \/ scroll
    \/ handleScrollTimer
    \/ \E i \in 1..Len(Rendered) : handleMarkReviewed(Rendered[i])
    \/ \E i \in 1..Len(Rendered) : handleDelete(Rendered[i])
    \/ \E s \in BagToSet(submissions) : handleMarkReviewedThen(s)
    \/ \E s \in BagToSet(submissions) : handleDeleteThen(s)
    \/ \E s \in BagToSet(submissions) : submitActionCatch(s)
    \/ \E activeIndex \in {0, 1} : handleTabChange(activeIndex)

\* The moderator only scrolls and switches tabs; time is measured.
NextTimed ==
    \/ initializeData
    \/ connectUserRejected
    \/ \E r \in BagToSet(requests) : fetchItemsThen(r)
    \/ \E r \in BagToSet(requests) : fetchItemsCatch(r)
    \/ scrollTimed
    \/ tick
    \/ handleScrollTimerDue
    \/ \E activeIndex \in {0, 1} : handleTabChange(activeIndex)

Spec == Init /\ [][Next]_vars

SpecTimed == InitTimed /\ [][NextTimed]_vars
\* ================================================================ claims
Total == Len(reviewQueueItems) + Len(reviewedItems)

ItemsOf(isReviewed) == IF isReviewed THEN reviewedItems ELSE reviewQueueItems

\* The first n pages of a queue, in page order.
FirstPages(isReviewed, n) ==
    SubSeq(ServerItems(isReviewed), 1, Min(n * PageSize, Len(ServerItems(isReviewed))))

\* C1: in every reachable state each item id occurs at most once in the
\* concatenation of PendingReview and Reviewed.
C1_IdsUnique == NoDup(reviewQueueItems \o reviewedItems)

C3_ExhaustedQueueNeverFetched ==
    [][last'.op = "fetch" => ~exhausted[last'.isReviewed]]_vars

\* C4: a step that handles a failed fetch, a failed mark-reviewed or a failed
\* delete leaves both item collections and both cursors as they were.
C4_FailureChangesNothing ==
    [][last'.op \in {"fetchErr", "markErr", "deleteErr"} => UNCHANGED Store]_vars

\* A scroll-triggered fetch has just failed with items loaded and a cursor kept.
C4_Witness ==
    /\ last.op = "fetchErr"
    /\ last.cursor # Null
    /\ ~last.isReviewed
    /\ reviewQueueCursor # Null
    /\ reviewQueueItems # <<>>

\* C5: when the acknowledgment of a markReviewed(id) that was invoked on an
\* item of PendingReview is applied, afterwards PendingReview does not contain
\* id, the first element of Reviewed is id, and the total number of items of
\* both queues is what it was just before.
C5_MarkReviewedMoves ==
    [][(last'.op = "markAck" /\ last'.wasPending) =>
          /\ ~In(last'.itemId, reviewQueueItems')
          /\ reviewedItems' # <<>>
          /\ Head(reviewedItems') = last'.itemId
          /\ Total' = Total]_vars

\* C6 (as claimed): when the acknowledgment of a deleteItem(id) that was
\* invoked on an item of PendingReview is applied, afterwards PendingReview
\* does not contain id, the total number of items of both queues is one less
\* than just before, and Reviewed and both cursors are unchanged.
C6_DeleteRemovesExactlyOne ==
    [][(last'.op = "deleteAck" /\ last'.wasPending) =>
          /\ ~In(last'.itemId, reviewQueueItems')
          /\ Total' = Total - 1
          /\ UNCHANGED <<reviewedItems, reviewQueueCursor, reviewedCursor>>]_vars

\* C6 (amended): ... afterwards PendingReview does not contain id, the total
\* number of items of both queues is less than just before by the number of
\* entries with that id PendingReview held just before (none when an earlier
\* acknowledgment already removed it), every other entry of PendingReview is
\* kept, and Reviewed and both cursors are unchanged.
C6_DeleteRemovesEntries ==
    [][(last'.op = "deleteAck" /\ last'.wasPending) =>
          /\ ~In(last'.itemId, reviewQueueItems')
          /\ Total' = Total - Count(last'.itemId, reviewQueueItems)
          /\ \A id \in {reviewQueueItems[i] : i \in 1..Len(reviewQueueItems)} \ {last'.itemId} :
                Count(id, reviewQueueItems') = Count(id, reviewQueueItems)
          /\ UNCHANGED <<reviewedItems, reviewQueueCursor, reviewedCursor>>]_vars

\* A delete of an item of PendingReview has just been applied while other
\* items stay in PendingReview.
C6_Witness ==
    /\ last.op = "deleteAck"
    /\ last.wasPending
    /\ last.itemId \in removedByDelete
    /\ ~In(last.itemId, reviewQueueItems)
    /\ reviewQueueItems # <<>>

\* C7: as long as no action has been applied, each queue's collection is the
\* concatenation, in page order, of as many pages as fetches for the queue
\* have succeeded, and holds no item twice.
C7_CollectionIsPagesInOrder ==
    ~acted => \A q \in BOOLEAN :
                 /\ ItemsOf(q) = FirstPages(q, succeeded[q])
                 /\ NoDup(ItemsOf(q))

\* C8: a burst of scroll events, each within the debounce window of the one
\* before, has yielded exactly one evaluation of the trigger condition when
\* the window after its last event has passed.
C8_OneEvaluationPerBurst ==
    (burst.active /\ sinceScroll = WindowTicks /\ ~handleScroll.pending)
        => burst.evals = 1

\* C9: an evaluation of the scroll handler issues a fetch only when no fetch
\* at all is in flight and the active queue's cursor is present.
C9_FetchOnlyWhenNoneInFlight ==
    [][last'.op = "fetch" =>
          /\ requests = EmptyBag
          /\ (IF activeTab = 1 THEN reviewedCursor ELSE reviewQueueCursor) # Null]_vars

\* C10: an id that a deleteItem acknowledgment has removed from PendingReview
\* is never in Reviewed afterwards.
C10_DeletedNeverReviewed ==
    \A id \in removedByDelete : ~In(id, reviewedItems)
====
